---- MODULE Spec2Model ----
(***************************************************************************)
(* Router of barebones-node-server (router.js): route registration,        *)
(* path normalisation, pattern compilation, match resolution and the       *)
(* middleware -> param hooks -> handler pipeline of Router.handle.         *)
(*                                                                         *)
(* Strings are sequences of one-character strings, so that startsWith,     *)
(* endsWith, slice, split and the regular expressions of the source are    *)
(* computed character by character.                                        *)
(***************************************************************************)
EXTENDS Integers, Sequences, FiniteSets, TLC

(***************************************************************************)
(* Characters and strings                                                  *)
(***************************************************************************)
Lower == {"a","b","c","d","e","f","g","h","i","j","k","l","m",
          "n","o","p","q","r","s","t","u","v","w","x","y","z"}
Upper == {"A","B","C","D","E","F","G","H","I","J","K","L","M",
          "N","O","P","Q","R","S","T","U","V","W","X","Y","Z"}
Digit == {"0","1","2","3","4","5","6","7","8","9"}

\* \w of a JavaScript regular expression: [A-Za-z0-9_]
WordChars == Lower \cup Upper \cup Digit \cup {"_"}

UpperOf ==
  [c \in Lower |->
     CASE c = "a" -> "A" [] c = "b" -> "B" [] c = "c" -> "C" [] c = "d" -> "D"
       [] c = "e" -> "E" [] c = "f" -> "F" [] c = "g" -> "G" [] c = "h" -> "H"
       [] c = "i" -> "I" [] c = "j" -> "J" [] c = "k" -> "K" [] c = "l" -> "L"
       [] c = "m" -> "M" [] c = "n" -> "N" [] c = "o" -> "O" [] c = "p" -> "P"
       [] c = "q" -> "Q" [] c = "r" -> "R" [] c = "s" -> "S" [] c = "t" -> "T"
       [] c = "u" -> "U" [] c = "v" -> "V" [] c = "w" -> "W" [] c = "x" -> "X"
       [] c = "y" -> "Y" [] OTHER -> "Z"]

\* String.prototype.toUpperCase
toUpperCase(s) ==
  [i \in 1..Len(s) |-> IF s[i] \in Lower THEN UpperOf[s[i]] ELSE s[i]]

\* String.prototype.startsWith / endsWith for a one-character argument
startsWith(s, c) == Len(s) >= 1 /\ s[1] = c
endsWith(s, c) == Len(s) >= 1 /\ s[Len(s)] = c

\* the value JavaScript calls undefined, where a string is expected
Undefined == <<"undefined">>

(***************************************************************************)
(* Router.normalizePath                                                    *)
(***************************************************************************)
normalizePath(path) ==
  LET p1 == IF ~startsWith(path, "/") THEN <<"/">> \o path ELSE path
  IN  IF p1 # <<"/">> /\ endsWith(p1, "/")
        THEN SubSeq(p1, 1, Len(p1) - 1)
        ELSE p1

(***************************************************************************)
(* Router.extractParams: split on "/", keep the segments that start with   *)
(* ":" without that character, left to right                               *)
(***************************************************************************)
\* positions of the "/" characters of s, extended by 0 and Len(s)+1
SlashAt(s) == {0, Len(s) + 1} \cup {i \in 1..Len(s) : s[i] = "/"}

\* String.prototype.split("/"): the segments between consecutive slashes
RECURSIVE SegmentsFrom(_, _)
SegmentsFrom(s, from) ==
  LET stop == CHOOSE k \in SlashAt(s) :
                k > from /\ \A m \in SlashAt(s) : m > from => k <= m
      seg == SubSeq(s, from + 1, stop - 1)
  IN  IF stop = Len(s) + 1 THEN <<seg>>
      ELSE <<seg>> \o SegmentsFrom(s, stop)

split(s) == SegmentsFrom(s, 0)

extractParams(path) ==
  LET segments == split(path)
      named == SelectSeq(segments, LAMBDA seg : startsWith(seg, ":"))
  IN  [i \in 1..Len(named) |-> SubSeq(named[i], 2, Len(named[i]))]

(***************************************************************************)
(* Router.pathToRegex.  A compiled expression is a sequence of tokens: a   *)
(* one-character string is that literal character, GROUP is the capturing  *)
(* group ([^/]+), WILD is .* and DOT is the metacharacter "." that a        *)
(* literal dot of the path becomes.  The expression is anchored (^...$).   *)
(***************************************************************************)
GROUP == "GROUP"
WILD == "WILD"
DOT == "DOT"

\* first replace: /\/:(\w+)/g  ->  "/([^/]+)"
RECURSIVE ReplaceParams(_, _)
ReplaceParams(path, i) ==
  IF i > Len(path) THEN <<>>
  ELSE IF path[i] = "/" /\ i + 2 <= Len(path) /\ path[i + 1] = ":"
          /\ path[i + 2] \in WordChars
    THEN LET nonWord == {k \in (i + 2)..Len(path) : path[k] \notin WordChars}
             stop == IF nonWord = {} THEN Len(path) + 1
                     ELSE CHOOSE k \in nonWord : \A m \in nonWord : k <= m
         IN  <<"/", GROUP>> \o ReplaceParams(path, stop)
    ELSE <<path[i]>> \o ReplaceParams(path, i + 1)

\* second replace: /\*/g -> ".*"; what is left of the path is read as the
\* source of a regular expression, where "." stands for any character
CompileChar(t) ==
  IF t = "*" THEN WILD ELSE IF t = "." THEN DOT ELSE t

pathToRegex(path) ==
  LET replaced == ReplaceParams(path, 1)
  IN  [i \in 1..Len(replaced) |-> CompileChar(replaced[i])]

(***************************************************************************)
(* String.prototype.match / RegExp.prototype.test of an anchored           *)
(* expression: no match (null), or the captured substrings in group order. *)
(* The quantifiers are greedy: the longest repetition is tried first.      *)
(***************************************************************************)
NoMatch == [matched |-> FALSE, groups |-> <<>>]
Matched(gs) == [matched |-> TRUE, groups |-> gs]

RECURSIVE RegexExec(_, _, _, _)
RegexExec(re, i, s, j) ==
  IF i > Len(re)
    THEN IF j > Len(s) THEN Matched(<<>>) ELSE NoMatch
  ELSE IF re[i] = WILD
    THEN LET ends == {k \in j..(Len(s) + 1) :
                        RegexExec(re, i + 1, s, k).matched}
         IN  IF ends = {} THEN NoMatch
             ELSE RegexExec(re, i + 1, s,
                            CHOOSE k \in ends : \A m \in ends : m <= k)
  ELSE IF re[i] = GROUP
    THEN LET ends == {k \in (j + 1)..(Len(s) + 1) :
                        /\ \A m \in j..(k - 1) : s[m] # "/"
                        /\ RegexExec(re, i + 1, s, k).matched}
         IN  IF ends = {} THEN NoMatch
             ELSE LET k == CHOOSE e \in ends : \A m \in ends : m <= e
                  IN  Matched(<<SubSeq(s, j, k - 1)>>
                              \o RegexExec(re, i + 1, s, k).groups)
  ELSE IF re[i] = DOT
    THEN IF j <= Len(s) THEN RegexExec(re, i + 1, s, j + 1) ELSE NoMatch
  ELSE IF j <= Len(s) /\ s[j] = re[i]
    THEN RegexExec(re, i + 1, s, j + 1)
    ELSE NoMatch

regexMatch(re, s) == RegexExec(re, 1, s, 1)
regexTest(re, s) == regexMatch(re, s).matched

(***************************************************************************)
(* url.parse(req.url, true).pathname: the URL up to its query or fragment  *)
(***************************************************************************)
pathnameOf(u) ==
  LET marks == {i \in 1..Len(u) : u[i] \in {"?", "#"}}
  IN  IF marks = {} THEN u
      ELSE SubSeq(u, 1, (CHOOSE k \in marks : \A m \in marks : k <= m) - 1)

(***************************************************************************)
(* Bounds and the inputs the operations are called with                    *)
(***************************************************************************)
MaxRoutes == 2
MaxMiddlewares == 2
MaxLen == 3

GET == <<"G","E","T">>
get == <<"g","e","t">>
POST == <<"P","O","S","T">>

Star == <<"/","*">>
Users == <<"/","u","s","e","r","s">>
UsersSlash == <<"/","u","s","e","r","s","/">>
UsersBare == <<"u","s","e","r","s">>
UsersId == <<"/","u","s","e","r","s","/",":","i","d">>
Users42 == <<"/","u","s","e","r","s","/","4","2">>
UsersQuery == <<"/","u","s","e","r","s","?","q","=","1">>
AxBy == <<"/","a","/",":","x","/","b","/",":","y">>
A1B2 == <<"/","a","/","1","/","b","/","2">>
Nope == <<"/","n","o","p","e">>
UsersStar == <<"/","u","s","e","r","s","/","*">>

id == <<"i","d">>
xName == <<"x">>

\* the routes and paths Router.match is probed with
Methods == {GET, get, POST}
RoutePaths == {Star, Users, UsersSlash, UsersBare, UsersId, AxBy}
RouteHandlers == {"h1", "h2"}
ProbePaths == {Users, UsersSlash, Users42, A1B2, UsersId, Nope}

\* the application the requests are dispatched to
ServedRoutes ==
  {[method |-> GET, path |-> Star, handler |-> "h1"],
   [method |-> GET, path |-> Users, handler |-> "h2"],
   [method |-> GET, path |-> UsersId, handler |-> "h3"]}
MiddlewarePaths == {Star, UsersStar}
MiddlewareHandlers == {"m1", "m2"}
ServedHooks ==
  {[name |-> id, handler |-> "p1"], [name |-> xName, handler |-> "p2"]}
RequestMethods == {GET, POST}
RequestUrls == {Users, UsersSlash, Users42, UsersQuery, Nope}

\* the characters of the strings the path functions are applied to
PathChars == {"/", "a", ":", "*", "."}

(***************************************************************************)
(* State of a Router and of the requests handed to Router.handle           *)
(***************************************************************************)
VARIABLES
  routes,         \* this.routes: insertion-ordered Map, key -> route
  middlewares,    \* this.middlewares: array of {path, handler}
  paramHandlers,  \* this.paramHandlers: insertion-ordered Map, name -> handler
  thrown,         \* the Error a registration call ended with, if any
  matchResult,    \* arguments and result of the last direct Router.match call
  requests,       \* one record per call of Router.handle in progress
  sample,         \* a path string the path functions are applied to
  normal,         \* normalizePath(sample), normalizePath of that, ...
  pattern,        \* what extractParams and pathToRegex make of sample
  server,         \* an HTTPServer and the request it is handling
  limiterRequests, \* the Map requests of a rateLimit(): address -> timestamps
  now,            \* what Date.now() returns
  reply,          \* the last call of a shipped middleware: result and response
  recorded        \* every timestamp a rateLimit() pushed, by address (history)

\* the state of the shipped middlewares (middleware.js)
shipped == <<limiterRequests, now, reply, recorded>>

vars == <<routes, middlewares, paramHandlers, thrown, matchResult, requests,
          sample, normal, pattern, server, limiterRequests, now, reply,
          recorded>>

NoError == <<>>

\* Map.prototype.has / get on the route table
routesHas(table, key) == \E i \in 1..Len(table) : table[i].key = key
routesGet(table, key) ==
  table[CHOOSE i \in 1..Len(table) : table[i].key = key]

\* `${method.toUpperCase()}:${normalizedPath}`
routeKey(method, normalizedPath) ==
  toUpperCase(method) \o <<":">> \o normalizedPath

\* key.split(":")[0]
keyMethod(key) ==
  LET colons == {i \in 1..Len(key) : key[i] = ":"}
  IN  IF colons = {} THEN key
      ELSE SubSeq(key, 1, (CHOOSE k \in colons : \A m \in colons : k <= m) - 1)

(***************************************************************************)
(* Router.match                                                            *)
(***************************************************************************)
\* params[param] = match[index + 1] for each declared name in turn: a later
\* occurrence of a name overwrites an earlier one, and a name without a
\* capturing group of its index is bound to undefined
bindParams(names, groups) ==
  [n \in {names[i] : i \in 1..Len(names)} |->
     LET last == CHOOSE i \in 1..Len(names) :
                   names[i] = n /\ \A k \in 1..Len(names) : names[k] = n => k <= i
     IN  IF last <= Len(groups) THEN groups[last] ELSE Undefined]

NoRoute == [found |-> FALSE, handler |-> "", params |-> <<>>]

\* match with the scan keeping the last accepting route instead of the first
match_LastWins(table, method, urlPath) ==
  LET methodUpper == toUpperCase(method)
      exactKey == methodUpper \o <<":">> \o urlPath
      hits == {i \in 1..Len(table) :
                 /\ keyMethod(table[i].key) = methodUpper
                 /\ regexTest(table[i].regex, urlPath)}
  IN  IF routesHas(table, exactKey)
        THEN [found |-> TRUE, handler |-> routesGet(table, exactKey).handler,
              params |-> <<>>]
      ELSE IF hits = {} THEN NoRoute
      ELSE LET final == CHOOSE i \in hits : \A k \in hits : k <= i
               route == table[final]
           IN  [found |-> TRUE, handler |-> route.handler,
                params |-> bindParams(route.params,
                                      regexMatch(route.regex, urlPath).groups)]

match(table, method, urlPath) ==
  LET methodUpper == toUpperCase(method)
      exactKey == methodUpper \o <<":">> \o urlPath
      hits == {i \in 1..Len(table) :
                 /\ keyMethod(table[i].key) = methodUpper
                 /\ regexTest(table[i].regex, urlPath)}
  IN  IF routesHas(table, exactKey)
        THEN [found |-> TRUE, handler |-> routesGet(table, exactKey).handler,
              params |-> <<>>]
      ELSE IF hits = {} THEN NoRoute
      ELSE LET first == CHOOSE i \in hits : \A k \in hits : i <= k
               route == table[first]
           IN  [found |-> TRUE, handler |-> route.handler,
                params |-> bindParams(route.params,
                                      regexMatch(route.regex, urlPath).groups)]

\* match.params[paramName]
paramValue(params, name) ==
  IF name \in DOMAIN params THEN params[name] ELSE Undefined

\* truthiness of a string or undefined
truthy(v) == v # Undefined /\ v # <<>>

(***************************************************************************)
(* Registration.  The route table, the middleware list and the hooks are   *)
(* filled in before the first request is handled or matched, and a         *)
(* registration call that throws ends the set-up.                          *)
(***************************************************************************)
NoMatchCall == [method |-> <<>>, urlPath |-> <<>>, result |-> NoRoute]
IdleRequest ==
  [pc |-> "idle", method |-> <<>>, url |-> <<>>, idx |-> 0, handler |-> "",
   params |-> <<>>, trace |-> <<>>, last |-> "", res |-> <<>>]

SettingUp ==
  /\ thrown = NoError
  /\ matchResult = NoMatchCall
  /\ \A r \in DOMAIN requests : requests[r].pc = "idle"

\* add without the duplicate check: Map.prototype.set replaces the entry
add_Overwrites(method, path, handler) ==
  LET normalizedPath == normalizePath(path)
      key == routeKey(method, normalizedPath)
      entry == [key |-> key, handler |-> handler,
                params |-> extractParams(normalizedPath),
                regex |-> pathToRegex(normalizedPath)]
  IN  /\ SettingUp
      /\ Len(routes) < MaxRoutes
      /\ routes' = IF routesHas(routes, key)
                     THEN [i \in 1..Len(routes) |->
                             IF routes[i].key = key THEN entry ELSE routes[i]]
                     ELSE Append(routes, entry)
      /\ UNCHANGED <<thrown, middlewares, paramHandlers, matchResult, requests,
                     sample, normal,
                 pattern, server, shipped>>

\* Router.add
add(method, path, handler) ==
  LET normalizedPath == normalizePath(path)
      key == routeKey(method, normalizedPath)
  IN  /\ SettingUp
      /\ Len(routes) < MaxRoutes
      /\ IF routesHas(routes, key)
           THEN /\ thrown' = <<"Route ", method, " ", path, " already exists">>
                /\ UNCHANGED routes
           ELSE /\ routes' = Append(routes,
                                    [key |-> key,
                                     handler |-> handler,
                                     params |-> extractParams(normalizedPath),
                                     regex |-> pathToRegex(normalizedPath)])
                /\ UNCHANGED thrown
      /\ UNCHANGED <<middlewares, paramHandlers, matchResult, requests, sample, normal,
                 pattern, server, shipped>>

\* Router.use(path, ...handlers); first is the first argument with its typeof
use(first, handlers) ==
  /\ SettingUp
  /\ IF first.typeof = "function"
       THEN /\ Len(middlewares) < MaxMiddlewares
            /\ middlewares' =
                 Append(middlewares, [path |-> Star, handler |-> first.value])
       ELSE /\ Len(middlewares) + Len(handlers) <= MaxMiddlewares
            /\ middlewares' = middlewares \o
                 [i \in 1..Len(handlers) |->
                    [path |-> first.value, handler |-> handlers[i]]]
  /\ UNCHANGED <<routes, paramHandlers, thrown, matchResult, requests, sample, normal,
                 pattern, server, shipped>>

\* Router.param pushing onto a list instead of setting a Map entry
param_Appends(name, handler) ==
  /\ SettingUp
  /\ paramHandlers' = Append(paramHandlers, [name |-> name, handler |-> handler])
  /\ UNCHANGED <<routes, middlewares, thrown, matchResult, requests, sample,
                 normal, pattern, server, shipped>>

\* Router.param: Map.prototype.set keeps the position of an existing name
param(name, handler) ==
  /\ SettingUp
  /\ paramHandlers' =
       IF \E i \in 1..Len(paramHandlers) : paramHandlers[i].name = name
         THEN [i \in 1..Len(paramHandlers) |->
                 IF paramHandlers[i].name = name
                   THEN [name |-> name, handler |-> handler]
                   ELSE paramHandlers[i]]
         ELSE Append(paramHandlers, [name |-> name, handler |-> handler])
  /\ UNCHANGED <<routes, middlewares, thrown, matchResult, requests, sample, normal,
                 pattern, server, shipped>>

\* Router.match falling back to the routes of the other methods
matchCall_AnyMethod(method, urlPath) ==
  LET own == match(routes, method, urlPath)
      others == {m \in {GET, POST} : match(routes, m, urlPath).found}
  IN  /\ thrown = NoError
      /\ matchResult' =
           [method |-> method, urlPath |-> urlPath,
            result |-> IF own.found \/ others = {} THEN own
                       ELSE match(routes, CHOOSE m \in others : TRUE, urlPath)]
      /\ UNCHANGED <<routes, middlewares, paramHandlers, thrown, requests,
                     sample, normal, pattern, server, shipped>>

\* a direct call of Router.match
matchCall(method, urlPath) ==
  /\ thrown = NoError
  /\ matchResult' = [method |-> method, urlPath |-> urlPath,
                     result |-> match(routes, method, urlPath)]
  /\ UNCHANGED <<routes, middlewares, paramHandlers, thrown, requests, sample, normal,
                 pattern, server, shipped>>

(***************************************************************************)
(* Router.handle.  The function runs from one await to the next without    *)
(* interruption; pc names the call it is suspended on: "mw" the middleware *)
(* of index idx, "hook" the param handler of index idx, "handler" the      *)
(* route handler; "returned" and "rejected" are the two ends of the        *)
(* promise it returns.  trace lists the calls it made and their            *)
(* completions, last is the value the latest awaited call came back with,  *)
(* res what handle itself wrote to the response.                           *)
(***************************************************************************)
MiddlewareReturns == {"true", "false", "undefined", "0"}
HookReturns == {"undefined", "false"}

Event(ev, h, arg) == [ev |-> ev, h |-> h, arg |-> arg]

NotFoundResponse(pathname) ==
  [status |-> 404,
   contentType |-> "application/json",
   body |-> [error |-> "Not Found",
             message |-> <<"Route ">> \o pathname \o <<" not found">>]]

\* the param handlers without the test of line 144
RunParamHandlers_NoTest(req, from) ==
  LET due == from..Len(paramHandlers)
  IN  IF due # {}
        THEN LET k == CHOOSE i \in due : \A m \in due : i <= m
                 name == paramHandlers[k].name
             IN  [req EXCEPT
                    !.pc = "hook", !.idx = k,
                    !.trace = Append(@, Event("hook", paramHandlers[k].handler,
                                       <<paramValue(req.params, name), name>>))]
        ELSE [req EXCEPT
                !.pc = "handler", !.idx = 0,
                !.trace = Append(@, Event("handler", req.handler, <<>>))]

\* lines 143-150: the param handlers from position from on, then the route
\* handler
RunParamHandlers(req, from) ==
  LET due == {k \in from..Len(paramHandlers) :
                truthy(paramValue(req.params, paramHandlers[k].name))}
  IN  IF due # {}
        THEN LET k == CHOOSE i \in due : \A m \in due : i <= m
                 name == paramHandlers[k].name
             IN  [req EXCEPT
                    !.pc = "hook", !.idx = k,
                    !.trace = Append(@, Event("hook", paramHandlers[k].handler,
                                       <<paramValue(req.params, name), name>>))]
        ELSE [req EXCEPT
                !.pc = "handler", !.idx = 0,
                !.trace = Append(@, Event("handler", req.handler, <<>>))]

\* route resolution with the 404 naming req.url instead of the pathname
RunMatch_UrlInMessage(req) ==
  LET pathname == pathnameOf(req.url)
      m == match(routes, req.method, pathname)
  IN  IF m.found
        THEN RunParamHandlers(
               [req EXCEPT !.handler = m.handler, !.params = m.params,
                           !.trace = Append(@, Event("match", m.handler, <<>>))],
               1)
        ELSE [req EXCEPT
                !.pc = "returned", !.idx = 0,
                !.trace = Append(@, Event("nomatch", "", <<>>)),
                !.res = Append(@, NotFoundResponse(req.url))]

\* lines 136-160: route resolution, then the hooks or the 404
RunMatch(req) ==
  LET pathname == pathnameOf(req.url)
      m == match(routes, req.method, pathname)
  IN  IF m.found
        THEN RunParamHandlers(
               [req EXCEPT !.handler = m.handler, !.params = m.params,
                           !.trace = Append(@, Event("match", m.handler, <<>>))],
               1)
        ELSE [req EXCEPT
                !.pc = "returned", !.idx = 0,
                !.trace = Append(@, Event("nomatch", "", <<>>)),
                !.res = Append(@, NotFoundResponse(pathname))]

\* the test of line 129 for the middleware entry mw
middlewareApplies(mw, pathname) ==
  regexTest(pathToRegex(normalizePath(mw.path)), pathname)

\* the middleware loop without the test of line 129
RunMiddlewares_NoTest(req, from) ==
  LET due == from..Len(middlewares)
  IN  IF due # {}
        THEN LET k == CHOOSE i \in due : \A m \in due : i <= m
             IN  [req EXCEPT
                    !.pc = "mw", !.idx = k,
                    !.trace = Append(@, Event("mw", middlewares[k].handler, <<>>))]
        ELSE RunMatch(req)

\* lines 125-133: the middleware entries from position from on
RunMiddlewares(req, from) ==
  LET pathname == pathnameOf(req.url)
      due == {k \in from..Len(middlewares) :
                middlewareApplies(middlewares[k], pathname)}
  IN  IF due # {}
        THEN LET k == CHOOSE i \in due : \A m \in due : i <= m
             IN  [req EXCEPT
                    !.pc = "mw", !.idx = k,
                    !.trace = Append(@, Event("mw", middlewares[k].handler, <<>>))]
        ELSE RunMatch(req)

\* Router.handle taking the middleware entries off the list as it goes
handle_ShiftsMiddlewares(r, method, url) ==
  /\ thrown = NoError
  /\ requests[r].pc = "idle"
  /\ \A q \in DOMAIN requests : q < r => requests[q].pc # "idle"
  /\ requests' = [requests EXCEPT ![r] =
       RunMiddlewares([IdleRequest EXCEPT !.method = method, !.url = url], 1)]
  /\ middlewares' = IF middlewares = <<>> THEN <<>> ELSE Tail(middlewares)
  /\ UNCHANGED <<routes, paramHandlers, thrown, matchResult, sample, normal,
                 pattern, server, shipped>>

\* a call of Router.handle, up to its first await
handle(r, method, url) ==
  /\ thrown = NoError
  /\ requests[r].pc = "idle"
  /\ \A q \in DOMAIN requests : q < r => requests[q].pc # "idle"
  /\ requests' = [requests EXCEPT ![r] =
       RunMiddlewares([IdleRequest EXCEPT !.method = method, !.url = url], 1)]
  /\ UNCHANGED <<routes, middlewares, paramHandlers, thrown, matchResult,
                 sample, normal,
                 pattern, server, shipped>>

\* the middleware's return tested with !shouldContinue instead of === false
middlewareReturns_Falsy(r, v) ==
  LET req == requests[r]
      back == [req EXCEPT
                 !.last = v,
                 !.trace = Append(@, Event("mw_return",
                                           middlewares[req.idx].handler, <<>>))]
  IN  /\ req.pc = "mw"
      /\ requests' = [requests EXCEPT ![r] =
           IF v \in {"false", "undefined", "0"}
             THEN [back EXCEPT !.pc = "returned"]
             ELSE RunMiddlewares(back, req.idx + 1)]
      /\ UNCHANGED <<routes, middlewares, paramHandlers, thrown, matchResult,
                     sample, normal,
                 pattern, server, shipped>>

\* the awaited middleware returns v (lines 130-131)
middlewareReturns(r, v) ==
  LET req == requests[r]
      back == [req EXCEPT
                 !.last = v,
                 !.trace = Append(@, Event("mw_return",
                                           middlewares[req.idx].handler, <<>>))]
  IN  /\ req.pc = "mw"
      /\ requests' = [requests EXCEPT ![r] =
           IF v = "false"
             THEN [back EXCEPT !.pc = "returned"]
             ELSE RunMiddlewares(back, req.idx + 1)]
      /\ UNCHANGED <<routes, middlewares, paramHandlers, thrown, matchResult,
                     sample, normal,
                 pattern, server, shipped>>

\* the parameters kept in one field of the router instead of on the
\* request: after its await a request reads what the latest match left there
paramHandlerReturns_SharedParams(r, v) ==
  LET req == requests[r]
      others == {q \in DOMAIN requests : q # r /\ requests[q].pc # "idle"}
      shared == IF others = {} THEN req.params
                ELSE requests[CHOOSE q \in others : TRUE].params
      back == [req EXCEPT
                 !.last = v, !.params = shared,
                 !.trace = Append(@, Event("hook_return",
                                           paramHandlers[req.idx].handler, <<>>))]
  IN  /\ req.pc = "hook"
      /\ requests' = [requests EXCEPT ![r] = RunParamHandlers(back, req.idx + 1)]
      /\ UNCHANGED <<routes, middlewares, paramHandlers, thrown, matchResult,
                     sample, normal, pattern, server, shipped>>

\* the awaited param handler returns v (line 145)
paramHandlerReturns(r, v) ==
  LET req == requests[r]
      back == [req EXCEPT
                 !.last = v,
                 !.trace = Append(@, Event("hook_return",
                                           paramHandlers[req.idx].handler, <<>>))]
  IN  /\ req.pc = "hook"
      /\ requests' = [requests EXCEPT ![r] = RunParamHandlers(back, req.idx + 1)]
      /\ UNCHANGED <<routes, middlewares, paramHandlers, thrown, matchResult,
                     sample, normal,
                 pattern, server, shipped>>

\* the awaited route handler returns (line 150)
handlerReturns(r) ==
  LET req == requests[r]
  IN  /\ req.pc = "handler"
      /\ requests' = [requests EXCEPT ![r] =
           [req EXCEPT !.pc = "returned", !.last = "undefined",
                       !.trace = Append(@, Event("handler_return",
                                                 req.handler, <<>>))]]
      /\ UNCHANGED <<routes, middlewares, paramHandlers, thrown, matchResult,
                     sample, normal,
                 pattern, server, shipped>>

\* the awaited call wrapped in a try whose catch swallows the exception
awaitedThrows_Swallowed(r) ==
  LET req == requests[r]
  IN  /\ req.pc \in {"mw", "hook", "handler"}
      /\ requests' = [requests EXCEPT ![r] =
           [req EXCEPT !.pc = "returned", !.last = "throw",
                       !.trace = Append(@, Event("throw", "", <<>>))]]
      /\ UNCHANGED <<routes, middlewares, paramHandlers, thrown, matchResult,
                     sample, normal, pattern, server, shipped>>

\* the awaited call throws (or its promise rejects): nothing in handle
\* catches it
awaitedThrows(r) ==
  LET req == requests[r]
  IN  /\ req.pc \in {"mw", "hook", "handler"}
      /\ requests' = [requests EXCEPT ![r] =
           [req EXCEPT !.pc = "rejected", !.last = "throw",
                       !.trace = Append(@, Event("throw", "", <<>>))]]
      /\ UNCHANGED <<routes, middlewares, paramHandlers, thrown, matchResult,
                     sample, normal,
                 pattern, server, shipped>>

\* one more application of Router.normalizePath to the sample path
normalizeAgain ==
  /\ Len(normal) < 2
  /\ normal' = Append(normal,
                      normalizePath(IF normal = <<>> THEN sample
                                    ELSE normal[Len(normal)]))
  /\ UNCHANGED <<routes, middlewares, paramHandlers, thrown, matchResult,
                 requests, sample,
                 pattern, server, shipped>>

(***************************************************************************)
(* Specifications                                                          *)
(***************************************************************************)
NoPattern ==
  [path |-> <<>>, params |-> <<>>, regex |-> <<>>, compiled |-> FALSE,
   tested |-> <<>>, accepts |-> FALSE, probed |-> FALSE]
NoServer == [pc |-> "none"]

\* the client addresses (req.socket.remoteAddress)
Addresses == {"a", "b"}

\* no shipped middleware has been called
NoReply == [mw |-> "none"]
NoShipped ==
  /\ limiterRequests = <<>>
  /\ now = 0
  /\ reply = NoReply
  /\ recorded = [ip \in Addresses |-> <<>>]

RouterInit ==
  /\ routes = <<>>
  /\ middlewares = <<>>
  /\ paramHandlers = <<>>
  /\ thrown = NoError
  /\ matchResult = NoMatchCall

\* the variables of the other specifications at rest
NoPathProbe == sample = <<>> /\ normal = <<>> /\ pattern = NoPattern

Init ==
  /\ RouterInit
  /\ requests = [r \in {1} |-> IdleRequest]
  /\ NoPathProbe
  /\ server = NoServer
  /\ NoShipped

UseArguments ==
  {[typeof |-> "function", value |-> h] : h \in MiddlewareHandlers}
    \cup {[typeof |-> "string", value |-> p] : p \in MiddlewarePaths}

HandlerLists ==
  {<<>>} \cup {<<h>> : h \in MiddlewareHandlers}
         \cup {<<h, k>> : h \in MiddlewareHandlers, k \in MiddlewareHandlers}

Register ==
  \E route \in ServedRoutes : add(route.method, route.path, route.handler)

RegisterMiddleware ==
  \E first \in UseArguments, hs \in HandlerLists : use(first, hs)

RegisterParamHook ==
  \E hook \in ServedHooks : param(hook.name, hook.handler)

Dispatch ==
  \E r \in DOMAIN requests, m \in RequestMethods, u \in RequestUrls :
    handle(r, m, u)

MiddlewareDone ==
  \E r \in DOMAIN requests, v \in MiddlewareReturns : middlewareReturns(r, v)

ParamHookDone ==
  \E r \in DOMAIN requests, v \in HookReturns : paramHandlerReturns(r, v)

HandlerDone == \E r \in DOMAIN requests : handlerReturns(r)

Failure == \E r \in DOMAIN requests : awaitedThrows(r)

\* the router of an application: set-up, then requests
Next ==
  \/ Register
  \/ RegisterMiddleware
  \/ RegisterParamHook
  \/ Dispatch
  \/ MiddlewareDone
  \/ ParamHookDone
  \/ HandlerDone
  \/ Failure

Spec == Init /\ [][Next]_vars

\* the route table alone: any routes, and Router.match called on them
RegisterAny ==
  \E m \in Methods, p \in RoutePaths, h \in RouteHandlers : add(m, p, h)

Probe ==
  \E m \in Methods, u \in ProbePaths : matchCall(m, u)

NextRoutes == RegisterAny \/ Probe

SpecRoutes == Init /\ [][NextRoutes]_vars

\* the path functions on every string of at most MaxLen characters
RECURSIVE Strings(_)
Strings(n) ==
  IF n = 0 THEN {<<>>}
  ELSE LET shorter == Strings(n - 1)
       IN  shorter \cup {Append(s, c) : s \in shorter, c \in PathChars}

InitPaths ==
  /\ RouterInit
  /\ requests = [r \in {1} |-> IdleRequest]
  /\ sample \in Strings(MaxLen)
  /\ normal = <<>>
  /\ pattern = NoPattern
  /\ server = NoServer
  /\ NoShipped

NextPaths == normalizeAgain

SpecPaths == InitPaths /\ [][NextPaths]_vars

\* a router after its set-up, serving several requests at a time: a request
\* is dispatched while earlier ones are suspended at an await
NConcurrent == 2

Users7 == <<"/","u","s","e","r","s","/","7">>
ConcurrentUrls == {Users42, Users7, Nope}

\* router.use("/*", m1); router.use("/users/*", m2);
\* router.get("/users/:id", h3); router.param("id", p1)
ServingRouter ==
  /\ routes = <<[key |-> routeKey(GET, UsersId), handler |-> "h3",
                 params |-> extractParams(UsersId),
                 regex |-> pathToRegex(UsersId)]>>
  /\ middlewares = <<[path |-> Star, handler |-> "m1"],
                     [path |-> UsersStar, handler |-> "m2"]>>
  /\ paramHandlers = <<[name |-> id, handler |-> "p1"]>>
  /\ thrown = NoError
  /\ matchResult = NoMatchCall

InitConcurrent ==
  /\ ServingRouter
  /\ requests = [r \in 1..NConcurrent |-> IdleRequest]
  /\ NoPathProbe
  /\ server = NoServer
  /\ NoShipped

DispatchConcurrent ==
  \E r \in DOMAIN requests, u \in ConcurrentUrls : handle(r, GET, u)

ProbeServing == \E u \in {Users42, Nope} : matchCall(GET, u)

NextConcurrent ==
  \/ DispatchConcurrent
  \/ ProbeServing
  \/ MiddlewareDone
  \/ ParamHookDone
  \/ HandlerDone
  \/ Failure

SpecConcurrent == InitConcurrent /\ [][NextConcurrent]_vars

\* param handlers registered again: the router after
\* router.get("/users/:id", h3) and router.param("id", p1)
HookNames == {id, xName}
HookHandlers == {"p1", "p2", "p3"}

InitHooks ==
  /\ routes = <<[key |-> routeKey(GET, UsersId), handler |-> "h3",
                 params |-> extractParams(UsersId),
                 regex |-> pathToRegex(UsersId)]>>
  /\ middlewares = <<>>
  /\ paramHandlers = <<[name |-> id, handler |-> "p1"]>>
  /\ thrown = NoError
  /\ matchResult = NoMatchCall
  /\ requests = [r \in {1} |-> IdleRequest]
  /\ NoPathProbe
  /\ server = NoServer
  /\ NoShipped

RegisterAnyParamHook ==
  \E name \in HookNames, handler \in HookHandlers : param(name, handler)

NextHooks ==
  \/ RegisterAnyParamHook
  \/ Dispatch
  \/ ParamHookDone
  \/ HandlerDone
  \/ Failure

SpecHooks == InitHooks /\ [][NextHooks]_vars

\* the path functions as Router.add applies them to one path (lines 13-20)
compileRoute ==
  LET normalizedPath == normalizePath(sample)
  IN  /\ ~pattern.compiled
      /\ pattern' = [NoPattern EXCEPT !.path = normalizedPath,
                                      !.params = extractParams(normalizedPath),
                                      !.regex = pathToRegex(normalizedPath),
                                      !.compiled = TRUE]
      /\ UNCHANGED <<routes, middlewares, paramHandlers, thrown, matchResult,
                     requests, sample, normal, server, shipped>>

\* path.match(route.regex) of Router.match (line 72) for one request path
testPath(urlPath) ==
  /\ pattern.compiled
  /\ ~pattern.probed
  /\ pattern' = [pattern EXCEPT !.tested = urlPath,
                                !.accepts = regexTest(pattern.regex, urlPath),
                                !.probed = TRUE]
  /\ UNCHANGED <<routes, middlewares, paramHandlers, thrown, matchResult,
                 requests, sample, normal, server, shipped>>

TestAny == \E urlPath \in Strings(MaxLen) : testPath(urlPath)

NextMatchers == compileRoute \/ TestAny

SpecMatchers == InitPaths /\ [][NextMatchers]_vars

(***************************************************************************)
(* Properties of the route table and of Router.match (SpecRoutes)          *)
(***************************************************************************)
Probed == matchResult # NoMatchCall

\* the routes registered under the probed method whose matcher accepts the
\* probed path, by position
Accepting ==
  {i \in 1..Len(routes) :
     /\ keyMethod(routes[i].key) = toUpperCase(matchResult.method)
     /\ regexTest(routes[i].regex, matchResult.urlPath)}

Earliest == CHOOSE i \in Accepting : \A k \in Accepting : i <= k

ProbedKey == toUpperCase(matchResult.method) \o <<":">> \o matchResult.urlPath

\* C1 as stated: of the routes of the request's method whose matchers accept
\* the path, Router.match returns the handler of the one registered first.
C1_RegistrationOrderAlone ==
  (Probed /\ Accepting # {}) =>
    /\ matchResult.result.found
    /\ matchResult.result.handler = routes[Earliest].handler

\* C1 amended: a route whose key is exactly METHOD:path wins wherever it was
\* registered; without such a route, Router.match returns the handler of the
\* first registered route of the method whose matcher accepts the path.
C1_ExactKeyThenRegistrationOrder ==
  (Probed /\ Accepting # {}) =>
    /\ matchResult.result.found
    /\ \A i \in 1..Len(routes) :
         routes[i].key = ProbedKey =>
           matchResult.result.handler = routes[i].handler
    /\ (\A i \in 1..Len(routes) : routes[i].key # ProbedKey) =>
         matchResult.result.handler = routes[Earliest].handler

\* two routes with different handlers accept the probed path, none of them
\* under the exact key, and the earlier one was returned
C1_Witness ==
  /\ Probed
  /\ \A i \in 1..Len(routes) : routes[i].key # ProbedKey
  /\ \E i, j \in Accepting :
       /\ i < j
       /\ routes[i].handler # routes[j].handler
       /\ matchResult.result.handler = routes[i].handler

\* C2: a registration under a key that is already in the table throws and
\* leaves the table as it was; the table only ever changes by a new key being
\* appended, so no entry is replaced, removed or reordered, and paths that
\* normalise to the same string share one key.
C2_DuplicateRejected ==
  [][ /\ (thrown' # thrown) =>
           /\ routes' = routes
           /\ routesHas(routes, routeKey(thrown'[2], normalizePath(thrown'[4])))
      /\ (routes' # routes) =>
           /\ Len(routes') = Len(routes) + 1
           /\ SubSeq(routes', 1, Len(routes)) = routes
           /\ ~routesHas(routes, routes'[Len(routes')].key)
           /\ thrown' = NoError
    ]_vars

\* a registration was rejected whose path is spelled differently from the
\* registered one (a missing leading or an extra trailing slash)
C2_Witness ==
  /\ thrown # NoError
  /\ thrown[4] # normalizePath(thrown[4])
  /\ routesHas(routes, routeKey(thrown[2], normalizePath(thrown[4])))

\* C5 as stated: when the first route that accepts the probed path declares
\* parameters, Router.match returns its handler and binds the i-th declared
\* name to the i-th captured segment, whatever is registered after it.
C5_ParamsBoundInOrder ==
  (Probed /\ Accepting # {} /\ routes[Earliest].params # <<>>) =>
    LET route == routes[Earliest]
        groups == regexMatch(route.regex, matchResult.urlPath).groups
    IN  /\ matchResult.result.found
        /\ matchResult.result.handler = route.handler
        /\ \A i \in 1..Len(route.params) :
             /\ route.params[i] \in DOMAIN matchResult.result.params
             /\ i <= Len(groups)
             /\ matchResult.result.params[route.params[i]] = groups[i]

\* the route Router.match returned: the one under the exact key when there
\* is one, else the first accepting route of the method
MatchedRoute ==
  IF routesHas(routes, ProbedKey) THEN routesGet(routes, ProbedKey)
  ELSE routes[Earliest]

\* C14 as stated: the parameter mapping of every result of Router.match has
\* exactly the declared parameter names of the matched route; the exact-key
\* result has an empty mapping only for a route that declares no parameter.
C14_ParamsAreDeclaredNames ==
  (Probed /\ matchResult.result.found) =>
    DOMAIN matchResult.result.params =
      {MatchedRoute.params[i] : i \in 1..Len(MatchedRoute.params)}

\* the routes registered under the probed method, compared in upper case
SameMethod ==
  {i \in 1..Len(routes) :
     keyMethod(routes[i].key) = toUpperCase(matchResult.method)}

\* C19: what Router.match returns is the handler of a route registered under
\* the request's method, the two compared without regard to case, that is
\* under the exact key or accepts the path; without a route of the method
\* the result is null, whatever is registered under other methods.
C19_MethodsNeverCross ==
  Probed =>
    /\ matchResult.result.found =>
         \E i \in SameMethod :
           /\ routes[i].handler = matchResult.result.handler
           /\ \/ routes[i].key = ProbedKey
              \/ regexTest(routes[i].regex, matchResult.urlPath)
    /\ SameMethod = {} => ~matchResult.result.found

\* the first route accepts the path but is of another method and has
\* another handler; the second one, of the method, was returned
C19_Witness ==
  /\ Probed
  /\ Len(routes) = 2
  /\ 1 \notin SameMethod
  /\ 2 \in SameMethod
  /\ regexTest(routes[1].regex, matchResult.urlPath)
  /\ routes[1].handler # routes[2].handler
  /\ matchResult.method # toUpperCase(matchResult.method)
  /\ matchResult.result.found
  /\ matchResult.result.handler = routes[2].handler

(***************************************************************************)
(* Properties of the path functions (SpecPaths)                            *)
(***************************************************************************)
\* C3 as stated: normalizePath is idempotent on every string, and its result
\* starts with "/" and ends with "/" only when it is "/".
C3_NormalizeIdempotent ==
  /\ Len(normal) >= 1 =>
       /\ startsWith(normal[1], "/")
       /\ endsWith(normal[1], "/") => normal[1] = <<"/">>
  /\ Len(normal) = 2 => normal[2] = normal[1]

(***************************************************************************)
(* Properties of Router.handle (Spec)                                      *)
(***************************************************************************)
Rs == DOMAIN requests

Has(req, ev) == \E i \in 1..Len(req.trace) : req.trace[i].ev = ev
Count(req, ev) == Cardinality({i \in 1..Len(req.trace) : req.trace[i].ev = ev})
EndsWith(req, ev) ==
  req.trace # <<>> /\ req.trace[Len(req.trace)].ev = ev

\* the handlers of the calls of kind ev, in the order they were made
Called(req, ev) ==
  LET calls == SelectSeq(req.trace, LAMBDA e : e.ev = ev)
  IN  [i \in 1..Len(calls) |-> calls[i].h]

\* C4: handle rests right after a middleware's return exactly when that
\* middleware returned false, and then it has returned without calling any
\* further middleware, any param handler or the route handler and without
\* writing the 404; after any other return value it has moved on.
C4_FalseStopsPipeline ==
  \A r \in Rs :
    LET req == requests[r]
    IN  /\ EndsWith(req, "mw_return") <=>
             (req.last = "false" /\ Has(req, "mw_return")
                /\ ~Has(req, "hook_return"))
        /\ EndsWith(req, "mw_return") =>
             /\ req.pc = "returned"
             /\ req.res = <<>>
             /\ ~Has(req, "hook") /\ ~Has(req, "handler")
             /\ ~Has(req, "match") /\ ~Has(req, "nomatch")
             /\ Count(req, "mw") = Count(req, "mw_return")

\* a middleware stopped a request that has a route, a param handler due and
\* a later middleware entry
C4_Witness ==
  \E r \in Rs :
    LET req == requests[r]
        m == match(routes, req.method, pathnameOf(req.url))
    IN  /\ req.pc = "returned" /\ req.last = "false"
        /\ EndsWith(req, "mw_return")
        /\ Count(req, "mw") < Len(middlewares)
        /\ m.found
        /\ \E k \in 1..Len(paramHandlers) :
             paramHandlers[k].name \in DOMAIN m.params

\* the middleware entries that apply to a request, by position: each pattern
\* of MiddlewarePaths is a literal prefix followed by "*"
PrefixOf(p, s) == Len(p) <= Len(s) /\ SubSeq(s, 1, Len(p)) = p
Applies(k, req) ==
  LET path == middlewares[k].path
  IN  /\ path[Len(path)] = "*"
      /\ PrefixOf(SubSeq(path, 1, Len(path) - 1), pathnameOf(req.url))
Applicable(req) ==
  LET idxs == {k \in 1..Len(middlewares) : Applies(k, req)}
      \* the k-th smallest element of idxs
      nth(n) == CHOOSE k \in idxs : Cardinality({j \in idxs : j <= k}) = n
  IN  [n \in 1..Cardinality(idxs) |-> middlewares[nth(n)].handler]

Resolved(req) == Has(req, "match") \/ Has(req, "nomatch")

\* handle returned because a middleware returned false
Stopped(req) == req.pc = "returned" /\ EndsWith(req, "mw_return")

\* C6: a request that reached route resolution without a route gets exactly
\* the 404 response naming its pathname, and no param handler or route
\* handler is called for it; a request with a route gets nothing written by
\* handle.
C6_NotFoundResponse ==
  \A r \in Rs :
    LET req == requests[r]
        pathname == pathnameOf(req.url)
        found == match(routes, req.method, pathname).found
    IN  /\ (req.pc = "returned" /\ ~Stopped(req) /\ ~found) =>
             /\ req.res =
                  << [status |-> 404,
                      contentType |-> "application/json",
                      body |-> [error |-> "Not Found",
                                message |-> <<"Route ">> \o pathname
                                              \o <<" not found">>]] >>
             /\ ~Has(req, "hook") /\ ~Has(req, "handler")
        /\ (req.pc \in {"hook", "handler"} \/ Has(req, "handler")) => found
        /\ (req.pc # "idle" /\ found) => req.res = <<>>
        /\ Len(req.res) <= 1

\* a request went through a middleware and ended in the 404
C6_Witness ==
  \E r \in Rs :
    /\ requests[r].pc = "returned"
    /\ Len(requests[r].res) = 1
    /\ Has(requests[r], "mw_return")

\* the positions in the trace of the calls of the param handler for name
HookCalls(req, name) ==
  {i \in 1..Len(req.trace) :
     req.trace[i].ev = "hook" /\ req.trace[i].arg[2] = name}

C8_DispatchNormalizes ==
  \A r \in Rs :
    LET req == requests[r]
        m == match(routes, req.method, normalizePath(pathnameOf(req.url)))
    IN  (Resolved(req) /\ m.found) =>
          /\ Has(req, "match")
          /\ req.handler = m.handler
          /\ req.res = <<>>

\* C9 as stated: every handler of one Router.use call becomes an entry of
\* its own, appended in argument order, under the given pattern or under /*
\* when the call gives handlers only.
C9_EveryHandlerAnEntry ==
  [][ \A first \in UseArguments, hs \in HandlerLists :
        use(first, hs) =>
          middlewares' = middlewares \o
            (IF first.typeof = "function"
               THEN [i \in 1..(Len(hs) + 1) |->
                       [path |-> Star,
                        handler |-> IF i = 1 THEN first.value ELSE hs[i - 1]]]
               ELSE [i \in 1..Len(hs) |->
                       [path |-> first.value, handler |-> hs[i]]])
    ]_vars

\* C10: the middleware called for a request are entries that apply to its
\* path, in registration order and each once; none is called after route
\* resolution; and once the route is resolved (to a route or to the 404)
\* every applicable entry has been called and has returned.
C10_MiddlewareOrder ==
  \A r \in Rs :
    LET req == requests[r]
        called == Called(req, "mw")
        due == Applicable(req)
    IN  /\ Len(called) <= Len(due)
        /\ called = SubSeq(due, 1, Len(called))
        /\ \A i, j \in 1..Len(req.trace) :
             (req.trace[i].ev \in {"match", "nomatch"}
                /\ req.trace[j].ev \in {"mw", "mw_return"}) => j < i
        /\ Resolved(req) =>
             /\ called = due
             /\ Count(req, "mw_return") = Len(due)

\* a request was resolved after its applicable middleware ran, with an entry
\* registered before it that does not apply
C10_Witness ==
  \E r \in Rs :
    LET req == requests[r]
    IN  /\ Resolved(req)
        /\ Len(Called(req, "mw")) = 1
        /\ Len(middlewares) = 2
        /\ ~Applies(1, req)

\* C11 as stated: a param handler that returns false ends handle there: no
\* further param handler and no route handler is called, and handle returns
\* without an error.
C11_HookFalseAborts ==
  \A r \in Rs :
    LET req == requests[r]
    IN  (req.last = "false" /\ Has(req, "hook_return")) =>
          /\ EndsWith(req, "hook_return")
          /\ req.pc = "returned"

\* C12: when an awaited middleware, param handler or route handler throws,
\* handle ends rejected at that point: the throw is the last event of the
\* request, it follows the call that threw, every earlier call had returned
\* and was made once, and handle wrote nothing to the response; handle is
\* rejected only in this way.
C12_ThrowPropagates ==
  \A r \in Rs :
    LET req == requests[r]
        n == Len(req.trace)
    IN  /\ (req.pc = "rejected") <=> Has(req, "throw")
        /\ Has(req, "throw") =>
             /\ EndsWith(req, "throw")
             /\ Count(req, "throw") = 1
             /\ req.last = "throw"
             /\ req.res = <<>>
             /\ n >= 2
             /\ req.trace[n - 1].ev \in {"mw", "hook", "handler"}
             /\ Count(req, "mw") + Count(req, "hook") + Count(req, "handler")
                  = Count(req, "mw_return") + Count(req, "hook_return")
                      + Count(req, "handler_return") + 1
             /\ Count(req, "handler_return") = 0
             /\ Count(req, "handler") <= 1

\* a middleware threw while a later middleware applied to the request and a
\* param handler was due for its route
C12_Witness ==
  \E r \in Rs :
    LET req == requests[r]
        n == Len(req.trace)
        m == match(routes, req.method, pathnameOf(req.url))
    IN  /\ req.pc = "rejected"
        /\ n >= 2 /\ req.trace[n - 1].ev = "mw"
        /\ Count(req, "mw") < Len(Applicable(req))
        /\ m.found
        /\ \E k \in 1..Len(paramHandlers) :
             paramHandlers[k].name \in DOMAIN m.params

(***************************************************************************)
(* Properties of concurrent requests (SpecConcurrent)                      *)
(***************************************************************************)
\* the events of kind ev among the first k - 1 of the request
Before(req, k, ev) ==
  Cardinality({i \in 1..(k - 1) : req.trace[i].ev = ev})

\* C16: however the requests interleave at their awaits, each request's own
\* steps are ordered: a middleware starts only when the one before it has
\* returned, a param handler only when every applicable middleware and the
\* param handler before it have returned, the route handler only when every
\* param handler that started has returned; and the parameters a request
\* carries and hands to its param handlers are those of its own match.
C16_RequestsStayOrdered ==
  \A r \in Rs :
    LET req == requests[r]
        t == req.trace
        own == match(routes, req.method, pathnameOf(req.url))
        Settled(k) ==
          /\ t[k - 1].ev \in {"match", "hook_return"}
          /\ Before(req, k, "mw") = Len(Applicable(req))
          /\ Before(req, k, "mw_return") = Len(Applicable(req))
          /\ Before(req, k, "hook") = Before(req, k, "hook_return")
          /\ Before(req, k, "handler") = 0
    IN  /\ \A k \in 1..Len(t) :
             /\ t[k].ev = "mw" =>
                  /\ k = 1 \/ t[k - 1].ev = "mw_return"
                  /\ Before(req, k, "mw") = Before(req, k, "mw_return")
                  /\ Before(req, k, "match") = 0
                  /\ Before(req, k, "hook") = 0
                  /\ Before(req, k, "handler") = 0
             /\ t[k].ev = "hook" =>
                  /\ k > 1 /\ Settled(k)
                  /\ t[k].arg[1] = paramValue(own.params, t[k].arg[2])
             /\ t[k].ev = "handler" =>
                  /\ k > 1 /\ Settled(k)
                  /\ t[k].h = own.handler
        /\ Has(req, "match") => req.params = own.params

\* two requests with different parameters are in flight, the later one
\* ahead of the earlier one
C16_Witness ==
  \E r, q \in Rs :
    /\ r < q
    /\ requests[r].pc = "hook"
    /\ requests[q].pc = "handler"
    /\ requests[r].params # requests[q].params
    /\ Has(requests[q], "hook_return")

\* the configuration the router serves with
ServingConfiguration == <<routes, middlewares, paramHandlers>>

\* C17: no step of Router.handle and no call of Router.match changes the
\* route table, the middleware list or the param handler table, in content
\* or order.
C17_ConfigurationReadOnly ==
  [][(requests' # requests \/ matchResult' # matchResult) =>
       ServingConfiguration' = ServingConfiguration]_vars

\* requests ended in each of the four ways, and Router.match was called
C17_Witness ==
  /\ matchResult # NoMatchCall
  /\ \E r, q \in Rs :
       /\ requests[r].pc = "rejected"
       /\ requests[q].pc = "returned"
       /\ \/ Has(requests[q], "nomatch")
          \/ Stopped(requests[q])
          \/ Has(requests[q], "handler_return")

(***************************************************************************)
(* Properties of the param handler table (SpecHooks)                       *)
(***************************************************************************)
\* the positions of the table hooks that hold the name
EntriesOf(hooks, name) == {i \in 1..Len(hooks) : hooks[i].name = name}

\* what Router.param(name, handler) leaves: one entry for the name, with
\* the handler, and the entries of every other name as they were
Replaced(name, handler) ==
  /\ \E i \in 1..Len(paramHandlers') :
       /\ EntriesOf(paramHandlers', name) = {i}
       /\ paramHandlers'[i].handler = handler
  /\ \A i \in 1..Len(paramHandlers) :
       /\ i <= Len(paramHandlers')
       /\ paramHandlers'[i].name = paramHandlers[i].name
       /\ paramHandlers[i].name # name => paramHandlers'[i] = paramHandlers[i]
  /\ Len(paramHandlers') <= Len(paramHandlers) + 1

\* the request has gone through its param handlers
HooksDone(req) == Has(req, "handler")

\* C18: Router.param keeps one handler per name: registering a handler for
\* a name that has one replaces it in place and leaves the other names'
\* entries as they were; a request that binds the name calls the handler
\* registered last for it exactly once, and no handler registered before.
C18_OneHookPerName ==
  /\ [][\A name \in HookNames, handler \in HookHandlers :
          param(name, handler) => Replaced(name, handler)]_vars
  /\ [](\A name \in HookNames : Cardinality(EntriesOf(paramHandlers, name)) <= 1)
  /\ [](\A r \in Rs, i \in 1..Len(paramHandlers) :
          LET req == requests[r]
              name == paramHandlers[i].name
              calls == HookCalls(req, name)
          IN  (HooksDone(req) /\ truthy(paramValue(req.params, name))) =>
                /\ Cardinality(calls) = 1
                /\ \A k \in calls : req.trace[k].h = paramHandlers[i].handler)

\* p1 was replaced by p2 for id, another name is registered, and a request
\* binding id has called p2
C18_Witness ==
  /\ paramHandlers = <<[name |-> id, handler |-> "p2"],
                       [name |-> xName, handler |-> "p1"]>>
  /\ \E r \in Rs :
       /\ requests[r].pc = "returned"
       /\ Called(requests[r], "hook") = <<"p2">>
       /\ Has(requests[r], "handler_return")

(***************************************************************************)
(* Properties of the compiled matchers (SpecMatchers)                      *)
(***************************************************************************)
\* the names the first replace of pathToRegex turns into capturing groups,
\* in order: each maximal run of word characters after a "/:"
RECURSIVE GroupNames(_, _)
GroupNames(path, i) ==
  IF i > Len(path) THEN <<>>
  ELSE IF path[i] = "/" /\ i + 2 <= Len(path) /\ path[i + 1] = ":"
          /\ path[i + 2] \in WordChars
    THEN LET nonWord == {k \in (i + 2)..Len(path) : path[k] \notin WordChars}
             stop == IF nonWord = {} THEN Len(path) + 1
                     ELSE CHOOSE k \in nonWord : \A m \in nonWord : k <= m
         IN  <<SubSeq(path, i + 2, stop - 1)>> \o GroupNames(path, stop)
    ELSE GroupNames(path, i + 1)

Groups(re) == SelectSeq(re, LAMBDA t : t = GROUP)

\* C15 as stated: for every path, the parameter names of extractParams are
\* as many as the capturing groups of the matcher pathToRegex builds from
\* the same normalised path, and are the names of these groups in order.
C15_NamesAreGroups ==
  pattern.compiled =>
    /\ Len(pattern.params) = Len(Groups(pattern.regex))
    /\ pattern.params = GroupNames(pattern.path, 1)

\* a route path without a ":" segment and without "*"
Literal(path) ==
  /\ \A i \in 1..Len(path) : path[i] # "*"
  /\ extractParams(path) = <<>>

\* C20 as stated: a matcher accepts whole paths only and literal text
\* literally: a route without parameter segment and without "*" accepts
\* the request path equal to its normalised path and no other, and the
\* route "/:name" accepts exactly a "/" followed by one or more characters
\* other than "/".
C20_LiteralAndWhole ==
  pattern.probed =>
    /\ Literal(pattern.path) =>
         (pattern.accepts <=> pattern.tested = pattern.path)
    /\ (Len(pattern.path) = 3 /\ pattern.params = <<<<"a">>>>) =>
         (pattern.accepts <=>
            /\ Len(pattern.tested) >= 2
            /\ pattern.tested[1] = "/"
            /\ \A k \in 2..Len(pattern.tested) : pattern.tested[k] # "/")

(***************************************************************************)
(* HTTPServer (server.js): its own middleware list and route Map, and       *)
(* handleRequest from one await to the next.  pc of the request: "parse"   *)
(* awaiting parseRequest, "mw" the middleware of index idx, "handler" the  *)
(* route handler or notFoundHandler; "returned" and "rejected" are the two *)
(* ends of the promise.  res lists the responses written.                  *)
(***************************************************************************)
MaxServerMiddlewares == 3

OPTIONS == <<"O","P","T","I","O","N","S">>
PublicFile == <<"/","p","u","b","l","i","c","/","x">>
PublicPrefix == <<"/","p","u","b","l","i","c","/">>

ServerMethods == {GET, POST, OPTIONS}
ServerUrls == {Users, PublicFile, Nope}
ServerRoutes ==
  {[method |-> GET, path |-> Users, handler |-> "listUsers"],
   [method |-> POST, path |-> Users, handler |-> "createUser"],
   [method |-> GET, path |-> Star, handler |-> "fallback"]}

\* String.prototype.startsWith for a string argument
startsWithString(s, p) == Len(p) <= Len(s) /\ SubSeq(s, 1, Len(p)) = p

\* new HTTPServer(): logger and cors() are installed by the constructor
ServerInit ==
  server = [middlewares |-> <<"logger", "cors">>, routes |-> <<>>,
            pc |-> "idle", method |-> <<>>, url |-> <<>>, idx |-> 0,
            handler |-> "", trace |-> <<>>, res |-> <<>>]

RouterIdle ==
  UNCHANGED <<routes, middlewares, paramHandlers, thrown, matchResult,
              requests, sample, normal, pattern, shipped>>

\* HTTPServer.use
serverUse(mw) ==
  /\ server.pc = "idle"
  /\ Len(server.middlewares) < MaxServerMiddlewares
  /\ server' = [server EXCEPT !.middlewares = Append(@, mw)]
  /\ RouterIdle

\* HTTPServer.addRoute: Map.prototype.set under `${method}:${path}`
serverAddRoute(method, path, handler) ==
  LET key == method \o <<":">> \o path
      entry == [key |-> key, handler |-> handler]
      table == server.routes
  IN  /\ server.pc = "idle"
      /\ server' = [server EXCEPT !.routes =
           IF \E i \in 1..Len(table) : table[i].key = key
             THEN [i \in 1..Len(table) |->
                     IF table[i].key = key THEN entry ELSE table[i]]
             ELSE Append(table, entry)]
      /\ RouterIdle

\* this.routes.get(key), undefined when the key is absent
serverRoutesGet(table, key) ==
  IF \E i \in 1..Len(table) : table[i].key = key
    THEN table[CHOOSE i \in 1..Len(table) : table[i].key = key].handler
    ELSE "undefined"

ServerError(message) ==
  [status |-> 500, contentType |-> "application/json",
   body |-> [error |-> "Internal Server Error", message |-> message]]

ServerNotFound(url) ==
  [status |-> 404, contentType |-> "application/json",
   body |-> [error |-> "Not Found",
             message |-> <<"Route ">> \o url \o <<" not found">>]]

\* lines 61-78: the static files, else the route handler, the GET:/* style
\* fallback or notFoundHandler, called inside the try
ServerRoute(srv) ==
  LET pathname == pathnameOf(srv.url)
      exact == serverRoutesGet(srv.routes, srv.method \o <<":">> \o pathname)
      star == serverRoutesGet(srv.routes, srv.method \o <<":">> \o Star)
  IN  IF srv.method = GET /\ startsWithString(pathname, PublicPrefix)
        THEN [srv EXCEPT !.pc = "returned",
                         !.trace = Append(@, Event("static", "serveFile", <<>>)),
                         !.res = Append(@, [status |-> "static"])]
      ELSE IF exact # "undefined"
        THEN [srv EXCEPT !.pc = "handler", !.handler = exact,
                         !.trace = Append(@, Event("handler", exact, <<>>))]
      ELSE IF star # "undefined"
        THEN [srv EXCEPT !.pc = "handler", !.handler = star,
                         !.trace = Append(@, Event("handler", star, <<>>))]
      ELSE [srv EXCEPT !.pc = "handler", !.handler = "notFoundHandler",
                       !.trace = Append(@, Event("handler", "notFoundHandler",
                                                 <<>>)),
                       !.res = Append(@, ServerNotFound(srv.url))]

\* lines 56-59: the next middleware, or the route
ServerMiddlewares(srv, from) ==
  IF from <= Len(srv.middlewares)
    THEN [srv EXCEPT !.pc = "mw", !.idx = from,
                     !.trace = Append(@, Event("mw", srv.middlewares[from],
                                               <<>>))]
    ELSE ServerRoute(srv)

\* HTTPServer.handleRequest up to await parseRequest(req)
handleRequest(method, url) ==
  /\ server.pc = "idle"
  /\ server' = [server EXCEPT !.pc = "parse", !.method = method, !.url = url]
  /\ RouterIdle

\* parseRequest resolves
requestParsed ==
  /\ server.pc = "parse"
  /\ server' = ServerMiddlewares(server, 1)
  /\ RouterIdle

\* parseRequestBody rejects (a body that is not JSON, a stream error); the
\* body is read for POST and PUT only
requestParseFails ==
  /\ server.pc = "parse"
  /\ server.method \in {POST}
  /\ server' = [server EXCEPT !.pc = "rejected",
                              !.trace = Append(@, Event("throw", "parseRequest",
                                                        <<>>))]
  /\ RouterIdle

\* what the middleware mw may return: logger returns true, the cors()
\* middleware false for OPTIONS (after its 204) and true otherwise, a
\* middleware of the application anything
ServerMiddlewareResults(mw, method) ==
  IF mw = "logger" THEN {"true"}
  ELSE IF mw = "cors"
    THEN (IF method = OPTIONS THEN {"false"} ELSE {"true"})
  ELSE MiddlewareReturns

\* line 57-58: the awaited middleware returns v
serverMiddlewareReturns(v) ==
  LET mw == server.middlewares[server.idx]
      wrote == IF mw = "cors" /\ v = "false"
                 THEN Append(server.res, [status |-> 204])
                 ELSE server.res
      back == [server EXCEPT !.res = wrote,
                             !.trace = Append(@, Event("mw_return", mw, <<v>>))]
  IN  /\ server.pc = "mw"
      /\ v \in ServerMiddlewareResults(mw, server.method)
      /\ server' = IF v = "false"
                     THEN [back EXCEPT !.pc = "returned"]
                     ELSE ServerMiddlewares(back, server.idx + 1)
      /\ RouterIdle

\* line 57: a middleware of the application throws, outside the try
serverMiddlewareThrows ==
  LET mw == server.middlewares[server.idx]
  IN  /\ server.pc = "mw"
      /\ mw \notin {"logger", "cors"}
      /\ server' = [server EXCEPT !.pc = "rejected",
                                  !.trace = Append(@, Event("throw", mw, <<>>))]
      /\ RouterIdle

\* line 78: the awaited handler returns, having answered
serverHandlerReturns ==
  /\ server.pc = "handler"
  /\ server' = [server EXCEPT
       !.pc = "returned",
       !.trace = Append(@, Event("handler_return", server.handler, <<>>)),
       !.res = IF server.handler = "notFoundHandler" THEN @
               ELSE Append(@, [status |-> "handler"])]
  /\ RouterIdle

\* lines 79-81: a registered handler throws and errorHandler answers
serverHandlerThrows ==
  /\ server.pc = "handler"
  /\ server.handler # "notFoundHandler"
  /\ server' = [server EXCEPT
       !.pc = "returned",
       !.trace = Append(@, Event("throw", server.handler, <<>>)),
       !.res = Append(@, ServerError("error.message"))]
  /\ RouterIdle

InitServer ==
  /\ RouterInit
  /\ requests = [r \in {1} |-> IdleRequest]
  /\ NoPathProbe
  /\ ServerInit
  /\ NoShipped

ServerUse == serverUse("custom")

ServerAddRoute ==
  \E route \in ServerRoutes :
    serverAddRoute(route.method, route.path, route.handler)

ServerRequest ==
  \E m \in ServerMethods, u \in ServerUrls : handleRequest(m, u)

ServerMiddlewareDone == \E v \in MiddlewareReturns : serverMiddlewareReturns(v)

NextServer ==
  \/ ServerUse
  \/ ServerAddRoute
  \/ ServerRequest
  \/ requestParsed
  \/ requestParseFails
  \/ ServerMiddlewareDone
  \/ serverMiddlewareThrows
  \/ serverHandlerReturns
  \/ serverHandlerThrows

SpecServer == InitServer /\ [][NextServer]_vars

\* C13 as stated: whenever request parsing, a middleware or the route
\* handler raises an exception inside HTTPServer.handleRequest, the
\* exception is caught and the 500 response is written.
C13_EveryFailureAnswered ==
  (\E i \in 1..Len(server.trace) : server.trace[i].ev = "throw") =>
    /\ server.pc = "returned"
    /\ \E i \in 1..Len(server.res) : server.res[i].status = 500

(***************************************************************************)
(* The shipped middlewares (middleware.js).  Each is a synchronous call on *)
(* a fresh response object; reply keeps the last call with what it         *)
(* returned and what it did to the response.                               *)
(***************************************************************************)
\* rateLimit(maxRequests, windowMs), and how far the clock runs
maxRequests == 2
windowMs == 2
MaxTime == 2

NoHeader == Undefined
BasicHeader == <<"B","a","s","i","c"," ","x">>
BearerHeader == <<"B","e","a","r","e","r"," ","t">>
BearerPrefix == <<"B","e","a","r","e","r"," ">>
AuthHeaders == {NoHeader, <<>>, BasicHeader, BearerHeader}

\* a response nothing was written to
NewResponse == [status |-> 0, ended |-> FALSE, headers |-> {}, remaining |-> 0]
writeHead(res, status, names) ==
  [res EXCEPT !.status = status, !.headers = @ \cup names]
setHeader(res, name) == [res EXCEPT !.headers = @ \cup {name}]
end(res) == [res EXCEPT !.ended = TRUE]

Reply(mw, input, result, res) ==
  [mw |-> mw, input |-> input, result |-> result, res |-> res]

RouterAndServerIdle ==
  UNCHANGED <<routes, middlewares, paramHandlers, thrown, matchResult,
              requests, sample, normal, pattern, server>>

\* the middleware cors() returns, with the default options
cors(method) ==
  /\ reply' =
       IF method = OPTIONS
         THEN Reply("cors", method, FALSE,
                    end(writeHead(NewResponse, 204,
                                  {"Access-Control-Allow-Origin",
                                   "Access-Control-Allow-Methods",
                                   "Access-Control-Allow-Headers",
                                   "Access-Control-Max-Age"})))
         ELSE Reply("cors", method, TRUE,
                    setHeader(NewResponse, "Access-Control-Allow-Origin"))
  /\ UNCHANGED <<limiterRequests, now, recorded>>
  /\ RouterAndServerIdle

\* authenticate() that writes the 401 head and returns without res.end
authenticate_NoEnd(authHeader) ==
  /\ reply' =
       IF authHeader = NoHeader \/ authHeader = <<>>
            \/ ~startsWithString(authHeader, BearerPrefix)
         THEN Reply("authenticate", authHeader, FALSE,
                    writeHead(NewResponse, 401, {"Content-Type"}))
         ELSE Reply("authenticate", authHeader, TRUE, NewResponse)
  /\ UNCHANGED <<limiterRequests, now, recorded>>
  /\ RouterAndServerIdle

\* the middleware authenticate() returns; authHeader is
\* req.headers.authorization
authenticate(authHeader) ==
  /\ reply' =
       IF authHeader = NoHeader \/ authHeader = <<>>
            \/ ~startsWithString(authHeader, BearerPrefix)
         THEN Reply("authenticate", authHeader, FALSE,
                    end(writeHead(NewResponse, 401, {"Content-Type"})))
         ELSE Reply("authenticate", authHeader, TRUE, NewResponse)
  /\ UNCHANGED <<limiterRequests, now, recorded>>
  /\ RouterAndServerIdle

\* the values of a body field: undefined, or a string of some length, or a
\* number (whose .length is undefined)
NoValue == [type |-> "undefined", length |-> 0]
FieldValues ==
  {NoValue, [type |-> "number", length |-> 0]}
    \cup {[type |-> "string", length |-> n] : n \in 0..2}

\* the schema the validate middleware is made with: absent rules are falsy
Schema ==
  <<[field |-> "name", required |-> TRUE, type |-> "string", minLength |-> 2,
     maxLength |-> 0],
    [field |-> "age", required |-> FALSE, type |-> "number", minLength |-> 0,
     maxLength |-> 0]>>

NoBody == [present |-> FALSE, name |-> NoValue, age |-> NoValue]
Bodies ==
  {NoBody} \cup {[present |-> TRUE, name |-> v, age |-> w] :
                   v \in FieldValues, w \in FieldValues}

fieldOf(body, field) == IF field = "name" THEN body.name ELSE body.age

\* lines 157-185 for one schema entry: the error messages it adds
RuleErrors(rules, value) ==
  IF rules.required
       /\ (value.type = "undefined"
             \/ (value.type = "string" /\ value.length = 0))
    THEN <<<<rules.field, "is required">>>>
  ELSE IF value.type = "undefined" THEN <<>>
  ELSE (IF rules.type # "" /\ value.type # rules.type
          THEN <<<<rules.field, "must be", rules.type>>>> ELSE <<>>)
       \o (IF rules.minLength # 0 /\ value.type = "string"
                /\ value.length < rules.minLength
             THEN <<<<rules.field, "must be at least">>>> ELSE <<>>)
       \o (IF rules.maxLength # 0 /\ value.type = "string"
                /\ value.length > rules.maxLength
             THEN <<<<rules.field, "must be at most">>>> ELSE <<>>)

RECURSIVE SchemaErrors(_, _)
SchemaErrors(body, i) ==
  IF i > Len(Schema) THEN <<>>
  ELSE RuleErrors(Schema[i], fieldOf(body, Schema[i].field))
         \o SchemaErrors(body, i + 1)

\* the middleware validate(schema) returns
validate(body) ==
  /\ reply' =
       IF ~body.present
         THEN Reply("validate", body, FALSE,
                    end(writeHead(NewResponse, 400, {"Content-Type"})))
       ELSE IF Len(SchemaErrors(body, 1)) > 0
         THEN Reply("validate", body, FALSE,
                    end(writeHead(NewResponse, 400, {"Content-Type"})))
       ELSE Reply("validate", body, TRUE, NewResponse)
  /\ UNCHANGED <<limiterRequests, now, recorded>>
  /\ RouterAndServerIdle

\* the Map requests of the rate limiter, as a sequence of entries
limiterHas(map, ip) == \E i \in 1..Len(map) : map[i].ip = ip
limiterGet(map, ip) == map[CHOOSE i \in 1..Len(map) : map[i].ip = ip].timestamps
limiterSet(map, ip, timestamps) ==
  IF limiterHas(map, ip)
    THEN [i \in 1..Len(map) |->
            IF map[i].ip = ip THEN [ip |-> ip, timestamps |-> timestamps]
            ELSE map[i]]
    ELSE Append(map, [ip |-> ip, timestamps |-> timestamps])

\* timestamps.filter((time) => now - time < windowMs)
recent(timestamps) == SelectSeq(timestamps, LAMBDA time : now - time < windowMs)

\* the middleware rateLimit(maxRequests, windowMs) returns, lines 96-140
rateLimit(ip) ==
  LET known == IF limiterHas(limiterRequests, ip) THEN limiterRequests
               ELSE limiterSet(limiterRequests, ip, <<>>)
      timestamps == limiterGet(known, ip)
      recentRequests == recent(timestamps)
  IN  /\ IF Len(recentRequests) >= maxRequests
           THEN /\ reply' = Reply("rateLimit", ip, FALSE,
                                  end(writeHead(NewResponse, 429,
                                                {"Content-Type", "Retry-After"})))
                /\ limiterRequests' = known
                /\ UNCHANGED recorded
           ELSE /\ reply' =
                     Reply("rateLimit", ip, TRUE,
                           [NewResponse EXCEPT
                              !.headers = {"X-RateLimit-Limit",
                                           "X-RateLimit-Remaining",
                                           "X-RateLimit-Reset"},
                              !.remaining =
                                 maxRequests - Len(recentRequests) - 1])
                /\ limiterRequests' =
                     limiterSet(known, ip, Append(timestamps, now))
                /\ recorded' = [recorded EXCEPT ![ip] = Append(@, now)]
      /\ UNCHANGED now
      /\ RouterAndServerIdle

\* the sweep that drops every entry, young timestamps included
sweep_DropsAll ==
  /\ limiterRequests' = <<>>
  /\ UNCHANGED <<now, reply, recorded>>
  /\ RouterAndServerIdle

\* the setInterval callback of rateLimit, lines 82-94
sweep ==
  LET kept == [i \in 1..Len(limiterRequests) |->
                 [ip |-> limiterRequests[i].ip,
                  timestamps |-> recent(limiterRequests[i].timestamps)]]
  IN  /\ limiterRequests' = SelectSeq(kept, LAMBDA e : Len(e.timestamps) # 0)
      /\ UNCHANGED <<now, reply, recorded>>
      /\ RouterAndServerIdle

\* time passes
tick ==
  /\ now < MaxTime
  /\ now' = now + 1
  /\ UNCHANGED <<limiterRequests, reply, recorded>>
  /\ RouterAndServerIdle

CorsCall == \E method \in ServerMethods : cors(method)
AuthenticateCall == \E authHeader \in AuthHeaders : authenticate(authHeader)
ValidateCall == \E body \in Bodies : validate(body)
RateLimitCall == \E ip \in Addresses : rateLimit(ip)

\* the four middlewares that can end a request, called in any order
NextShipped ==
  \/ CorsCall
  \/ AuthenticateCall
  \/ ValidateCall
  \/ RateLimitCall

SpecShipped == Init /\ [][NextShipped]_vars

\* a rate limiter over time: requests of several addresses, and the sweep
NextLimiter ==
  \/ RateLimitCall
  \/ sweep
  \/ tick

SpecLimiter == Init /\ [][NextLimiter]_vars

(***************************************************************************)
(* Properties of the shipped middlewares (SpecShipped, SpecLimiter)        *)
(***************************************************************************)
\* the status each middleware answers with when it stops the request
StopStatus ==
  [mw \in {"cors", "authenticate", "rateLimit", "validate"} |->
     IF mw = "cors" THEN 204
     ELSE IF mw = "authenticate" THEN 401
     ELSE IF mw = "rateLimit" THEN 429
     ELSE 400]

\* C21: when cors, authenticate, rateLimit or validate returns false it has
\* written its status (204, 401, 429, 400) and ended the response; when it
\* returns true it has neither written a status nor ended the response.
C21_FalseMeansAnswered ==
  reply.mw \in DOMAIN StopStatus =>
    /\ reply.result = FALSE =>
         /\ reply.res.status = StopStatus[reply.mw]
         /\ reply.res.ended
    /\ reply.result = TRUE =>
         /\ reply.res.status = 0
         /\ ~reply.res.ended

\* authenticate refused a request that carries a header of another scheme,
\* after the rate limiter had let requests through
C21_Witness ==
  /\ reply.mw = "authenticate"
  /\ reply.input = BasicHeader
  /\ reply.result = FALSE
  /\ reply.res.ended
  /\ limiterRequests # <<>>

\* the timestamps the limiter holds for an address
Held(map, ip) == IF limiterHas(map, ip) THEN limiterGet(map, ip) ELSE <<>>

\* the times of ts younger than windowMs at the time t
Young(ts, t) == SelectSeq(ts, LAMBDA time : t - time < windowMs)

\* a step of the middleware: the clock stands and a call was answered
LimiterCalled == now' = now /\ (reply' # reply \/ recorded' # recorded)

\* C22: the limiter lets at most maxRequests requests of one address
\* through within less than windowMs, whatever the other addresses and the
\* sweep do: a request is let through (true, timestamp recorded) only when
\* fewer than maxRequests recorded requests of its address are younger than
\* windowMs; a rejected request (429, false) is not recorded; the
\* X-RateLimit-Remaining of a request let through is not negative; and no
\* step, the sweep included, removes a timestamp younger than windowMs.
C22_WindowNeverExceeded ==
  /\ [](\A ip \in Addresses :
          /\ \A i \in 1..Len(recorded[ip]) :
               Cardinality({j \in 1..i :
                              recorded[ip][i] - recorded[ip][j] < windowMs})
                 <= maxRequests
          /\ Young(Held(limiterRequests, ip), now) = Young(recorded[ip], now))
  /\ [](reply.mw = "rateLimit" =>
          IF reply.result
            THEN /\ reply.res.remaining >= 0
                 /\ reply.res.remaining < maxRequests
                 /\ ~reply.res.ended
            ELSE reply.res.status = 429 /\ reply.res.ended)
  /\ [][/\ \A ip \in Addresses :
             /\ recorded'[ip] # recorded[ip] =>
                  /\ Len(Young(recorded[ip], now)) < maxRequests
                  /\ recorded'[ip] = Append(recorded[ip], now)
                  /\ reply' = Reply("rateLimit", ip, TRUE, reply'.res)
             /\ Young(Held(limiterRequests', ip), now) =
                  Young(Held(limiterRequests, ip), now)
                    \o (IF recorded'[ip] # recorded[ip] THEN <<now>> ELSE <<>>)
        /\ (LimiterCalled /\ reply'.result = FALSE) =>
             /\ recorded' = recorded
             /\ \A ip \in Addresses :
                  Held(limiterRequests', ip) = Held(limiterRequests, ip)
             /\ Len(Young(recorded[reply'.input], now)) >= maxRequests
       ]_vars

\* an address used up its window, was let through again once the window
\* had passed and the sweep had dropped its old timestamps, and is now
\* rejected, while another address was served
C22_Witness ==
  /\ reply.mw = "rateLimit"
  /\ reply.result = FALSE
  /\ Len(recorded[reply.input]) > maxRequests
  /\ Len(Held(limiterRequests, reply.input)) < Len(recorded[reply.input])
  /\ \E ip \in Addresses : ip # reply.input /\ recorded[ip] # <<>>

====
